---- MODULE Spec2Model ----
(***************************************************************************)
(* Market-Diagnostic-Dashboard: the ingestion / normalization / scoring /  *)
(* aggregation / alerting pipeline of backend/app/services.                *)
(*                                                                         *)
(* Numbers.  Provider values are integers.  A z-score is kept exactly as   *)
(* the pair [num, den2] standing for num / sqrt(den2); scores and bands    *)
(* are computed from it by exact integer comparisons.  The composite       *)
(* builders work in fixed point: a component score or a stress value v is   *)
(* kept as floor(100 * v) (hundredths), a percent change as basis points.   *)
(* Calendar dates are day numbers (strptime("%Y-%m-%d") is injective on     *)
(* well-formed dates).  The clock `now` counts hours.                       *)
(*                                                                         *)
(* Style.  A function of the code that computes its result in steps is an  *)
(* operator whose LET defines one local operator per step, last step       *)
(* first; a step receives the values computed so far as its parameters,    *)
(* named as the code names them, so that every value is written once.      *)
(***************************************************************************)
EXTENDS Integers, Sequences, FiniteSets, Bags, TLC

VARIABLES
    indicator_value,  \* table indicator_value: a bag of rows (no query of the core reads ids)
    system_status,    \* table system_status: sequence of snapshots, in id order
    alert,            \* table alert: sequence of alert rows, in id order
    indicator,        \* table indicator: sequence of configuration rows, in id order
    now,              \* wall clock (datetime.now / utcnow), in hours
    last,             \* the last operation that ran and what it returned
    task              \* the batch runs and alert checks in progress, and where they stand

vars == <<indicator_value, system_status, alert, indicator, now, last, task>>

-----------------------------------------------------------------------------
(* Bounds of the model *)

MaxRows == 3          \* rows of indicator_value
MaxSnapshots == 2     \* rows of system_status
MaxTime == 1          \* clock ticks
MaxBackfill == 2      \* largest backfill_days tried
MaxRuns == 2          \* batch runs started
MaxChecks == 2        \* alert checks called from worker threads
NumWorlds == 4        \* provider responses tried

-----------------------------------------------------------------------------
(* Optional values: a missing provider value (None) and a present one *)

None == <<>>
Some(v) == <<v>>
IsNone(x) == x = <<>>
Get(x) == x[1]

\* a list comprehension: the list itself, each element computed once
List(f) == <<>> \o f

Min(a, b) == IF a <= b THEN a ELSE b
Abs(a) == IF a < 0 THEN -a ELSE a

\* s[lo] + ... + s[hi], by halves
RECURSIVE SumOver(_, _, _)
SumOver(s, lo, hi) ==
    IF lo > hi THEN 0
    ELSE IF lo = hi THEN s[lo]
    ELSE LET mid == (lo + hi) \div 2
         IN  SumOver(s, lo, mid) + SumOver(s, mid + 1, hi)
Sum(s) == SumOver(s, 1, Len(s))
SumSq(s) == Sum(List([i \in 1..Len(s) |-> s[i] * s[i]]))

\* s[-k:] of Python for k >= 0 (s[-0:] is the whole list)
Tail_(s, k) ==
    IF k = 0 \/ k >= Len(s) THEN s
    ELSE SubSeq(s, Len(s) - k + 1, Len(s))

\* floor(b*b / (a*a)) for a > 0, b >= 0, without forming b*b: with b = q*a + r,
\* b*b/(a*a) = q*q + (2*q*r + r*r/a)/a.  Used for q <= 46340 only (q*q is then
\* a 32-bit integer).
SqDivFloor(b, a, less) ==
    LET q == b \div a
        r == b % a
    IN  q * q + ((2 * q * r + ((r * r - less) \div a)) \div a)

\* a * sqrt(d) <= b, for d >= 0, decided in integers
LeqSqrt(a, d, b) ==
    IF a = 0 \/ d = 0 THEN 0 <= b
    ELSE IF a < 0 /\ b >= 0 THEN TRUE
    ELSE IF a > 0 /\ b < 0 THEN FALSE
    ELSE IF a > 0
         THEN \/ b \div a > 46340
              \/ d <= SqDivFloor(b, a, 0)
         ELSE \* a < 0, b < 0:  a*a*d >= b*b, i.e. not (a*a*d <= b*b - 1)
              /\ (-b) \div (-a) <= 46340
              /\ ~(d <= SqDivFloor(-b, -a, 1))

\* the largest m in lo..hi-1 with m * sqrt(d) <= b, i.e. floor(b / sqrt(d))
RECURSIVE FloorDivSqrt(_, _, _, _)
FloorDivSqrt(b, d, lo, hi) ==
    IF hi - lo <= 1 THEN lo
    ELSE LET mid == (lo + hi) \div 2
         IN  IF LeqSqrt(mid, d, b)
             THEN FloorDivSqrt(b, d, mid, hi)
             ELSE FloorDivSqrt(b, d, lo, mid)

\* floor(sqrt(v)) for v >= 0
RECURSIVE IsqrtIn(_, _, _)
IsqrtIn(v, lo, hi) ==
    IF hi - lo <= 1 THEN lo
    ELSE LET mid == (lo + hi) \div 2
         IN  IF mid * mid <= v THEN IsqrtIn(v, mid, hi) ELSE IsqrtIn(v, lo, mid)
Isqrt(v) == IsqrtIn(v, 0, 46341)

RECURSIVE Gcd(_, _)
Gcd(a, b) == IF b = 0 THEN Abs(a) ELSE Gcd(b, a % Abs(b))

\* the greatest common divisor of s[lo], ..., s[hi], by halves
RECURSIVE GcdOver(_, _, _)
GcdOver(s, lo, hi) ==
    IF lo > hi THEN 0
    ELSE IF lo = hi THEN Abs(s[lo])
    ELSE LET mid == (lo + hi) \div 2
         IN  Gcd(GcdOver(s, lo, mid), GcdOver(s, mid + 1, hi))

\* population statistics of a list about its first element c, the deviations
\* divided by their common factor g (a z-score is invariant under both):
\* n, c, g, S = sum, V = n * (sum of squares) - S * S, so that
\* mean = c + g*S/n and std = g*sqrt(V)/n
Stats(window, all) ==
    LET Moments(n, c, g, S, Q) == [n |-> n, c |-> c, g |-> g, S |-> S, V |-> n * Q - S * S]
        About(c, g, about) == Moments(Len(window), c, g, Sum(about), SumSq(about))
        Scaled(c, g) == About(c, g, List([i \in 1..Len(window) |-> (window[i] - c) \div g]))
        Centred(c, g0) == Scaled(c, IF g0 = 0 THEN 1 ELSE g0)
    IN  Centred(window[1],
                GcdOver(List([i \in 1..Len(all) |-> all[i] - window[1]]), 1, Len(all)))

-----------------------------------------------------------------------------
(* analytics_stub.py: the statistical normalizer *)

MinSample == 30     \* compute_z_scores: "if len(arr) < 30"
MinOverlap == 30    \* the composite builders: "if len(common_dates) < 30"

\* compute_z_scores: one mean and one std, of the full sample when it has
\* fewer than 30 points and of the trailing `lookback` points otherwise;
\* std 0 is replaced by 1.  z = (x - mean)/std = (n*(x-c)/g - S) / sqrt(V),
\* and (n*(x-c) - g*S) / (n*unit) when std = 0, `unit` being the number of
\* units of the values that make 1.0.
\* z-scores that always take the statistics of the full sample
compute_z_scoresFullSample(values, lookback, unit) ==
    LET Scores(st) ==
            List([i \in 1..Len(values) |->
                IF st.V = 0
                THEN [num |-> st.n * (values[i] - st.c) - st.g * st.S,
                      den2 |-> (st.n * unit) * (st.n * unit)]
                ELSE [num |-> st.n * ((values[i] - st.c) \div st.g) - st.S,
                      den2 |-> st.V]])
    IN  IF Len(values) = 0 THEN <<>>
        ELSE Scores(Stats(values, values))

compute_z_scores(values, lookback, unit) ==
    LET Scores(st) ==
            List([i \in 1..Len(values) |->
                IF st.V = 0
                THEN [num |-> st.n * (values[i] - st.c) - st.g * st.S,
                      den2 |-> (st.n * unit) * (st.n * unit)]
                ELSE [num |-> st.n * ((values[i] - st.c) \div st.g) - st.S,
                      den2 |-> st.V]])
    IN  IF Len(values) = 0 THEN <<>>
        ELSE Scores(Stats(IF Len(values) < MinSample THEN values
                          ELSE Tail_(values, lookback),
                          values))

direction_adjusted(z_scores, direction) ==
    IF direction = 1 THEN z_scores
    ELSE List([i \in 1..Len(z_scores) |->
            [num |-> -(z_scores[i].num), den2 |-> z_scores[i].den2]])

normalize_series(raw_values, direction, lookback, unit) ==
    direction_adjusted(compute_z_scores(raw_values, lookback, unit), direction)

\* largest k in lo..hi-1 with (k-50)*sqrt(den2) <= 25*num, i.e. k <= 25*z + 50
RECURSIVE FloorScore(_, _, _)
FloorScore(z, lo, hi) ==
    IF hi - lo <= 1 THEN lo
    ELSE LET mid == (lo + hi) \div 2
         IN  IF LeqSqrt(mid - 50, z.den2, 25 * z.num)
             THEN FloorScore(z, mid, hi)
             ELSE FloorScore(z, lo, mid)

\* map_z_to_score: 0 for z <= -2, 100 for z >= 2, else int(((z+2)/4)*100)
map_z_to_score(z) ==
    IF LeqSqrt(2, z.den2, -(z.num)) THEN 0
    ELSE IF LeqSqrt(2, z.den2, z.num) THEN 100
    ELSE FloorScore(z, 0, 100)

\* a classification that compares with the yellow boundary first
classify_stateYellowFirst(score, gmax, ymax) ==
    IF score < ymax THEN "YELLOW"
    ELSE IF score < gmax THEN "RED"
    ELSE "GREEN"

classify_state(score, gmax, ymax) ==
    IF score < gmax THEN "RED"
    ELSE IF score < ymax THEN "YELLOW"
    ELSE "GREEN"

score_series(z_scores) == List([i \in 1..Len(z_scores) |-> map_z_to_score(z_scores[i])])

classify_series(scores, green_max, yellow_max) ==
    List([i \in 1..Len(scores) |-> classify_state(scores[i], green_max, yellow_max)])

-----------------------------------------------------------------------------
(* The indicator table.  seed_indicators.py writes the rows of VIX, DFF and *)
(* SPY (and of T10Y2Y and UNRATE, which take VIX's path through the        *)
(* coordinator); the derived indicators are the ones the coordinator knows *)
(* by code; MANUAL and CUSTOM are rows whose source it does not know.  No   *)
(* code of the repository writes last_state: it stays NULL.                 *)

Ind(code, source, symbol, direction, gmax, ymax) ==
    [code |-> code, source |-> source, source_symbol |-> symbol,
     direction |-> direction, lookback_days_for_z |-> 252,
     threshold_green_max |-> gmax, threshold_yellow_max |-> ymax,
     last_state |-> "NULL"]

VIX == Ind("VIX", "YAHOO", "^VIX", 1, 30, 60)
DFF == Ind("DFF", "FRED", "DFF", 1, 30, 60)
SPY == Ind("SPY", "YAHOO", "SPY", 1, 30, 60)
CONSUMER_HEALTH == Ind("CONSUMER_HEALTH", "DERIVED", "", -1, 30, 60)
BOND_MARKET_STABILITY == Ind("BOND_MARKET_STABILITY", "DERIVED", "", -1, 35, 65)
LIQUIDITY_PROXY == Ind("LIQUIDITY_PROXY", "DERIVED", "", -1, 30, 60)
MANUAL == Ind("MANUAL", "CSV", "manual", 1, 30, 60)
CUSTOM == Ind("CUSTOM", "DERIVED", "", 1, 30, 60)

\* the indicator tables the model starts from
Configurations ==
    { <<VIX, DFF, SPY>>,
      <<CONSUMER_HEALTH, BOND_MARKET_STABILITY, LIQUIDITY_PROXY>>,
      <<MANUAL, DFF, CUSTOM>> }

\* seed_indicators.py: Indicator(**ind_data) for each entry of its list and
\* db.add, whatever the entry holds; the lists the model seeds from hold one
\* entry, VIX, with any two boundaries
Boundaries == {0, 30, 60, 100}
SeedLists ==
    {<<Ind("VIX", "YAHOO", "^VIX", 1, g, y)>> : g, y \in Boundaries}
    \cup {<<[VIX EXCEPT !.lookback_days_for_z = 2]>>}

Catalogue == {VIX, DFF, SPY, CONSUMER_HEALTH, BOND_MARKET_STABILITY, LIQUIDITY_PROXY,
              MANUAL, CUSTOM} \cup {indicators[1] : indicators \in SeedLists}

CodesOf(table) == {table[i].code : i \in 1..Len(table)}

\* db.query(Indicator).filter(Indicator.code == code).first()
FindIndicator(table, code) ==
    IF code \in CodesOf(table)
    THEN <<table[CHOOSE i \in 1..Len(table) : table[i].code = code]>>
    ELSE <<>>

-----------------------------------------------------------------------------
(* The data providers: what fetch_series returns for a symbol in provider   *)
(* world w.  A response is a chronological series of (date, value or None), *)
(* or an exception (ok = FALSE).                                            *)

Pt(d, v) == [date |-> d, value |-> Some(v)]
PtNone(d) == [date |-> d, value |-> None]
Resp(series) == [ok |-> TRUE, series |-> series]
Raises == [ok |-> FALSE, series |-> <<>>]

\* n consecutive days ending on day `end`, the i-th with value f[i]
Daily(end, vals) == List([i \in 1..Len(vals) |-> Pt(end - Len(vals) + i, vals[i])])

VixSeries(w) ==
    CASE w = 1 -> Resp(Daily(60, List([i \in 1..30 |-> IF i = 30 THEN 30 ELSE 10])))
      [] w = 2 -> Resp(<<Pt(59, 5), Pt(60, 2)>>)
      [] w = 3 -> Resp(<<PtNone(59), PtNone(60)>>)
      [] w = 4 -> Resp(<<Pt(58, 1), Pt(59, 3), Pt(60, 2)>>)
      [] OTHER -> Raises

DffSeries(w) ==
    CASE w = 1 -> Resp(<<Pt(59, 1), Pt(60, 3)>>)
      [] w = 2 -> Resp(<<Pt(57, 1), PtNone(58), Pt(59, 2), Pt(60, 2)>>)
      [] w = 3 -> Resp(<<Pt(60, 5)>>)
      [] w = 4 -> Resp(<<Pt(59, 2), Pt(60, 4)>>)
      [] OTHER -> Raises

SpySeries(w) ==
    CASE w = 1 -> Raises
      [] w = 2 -> Resp(<<Pt(59, 101), Pt(60, 100)>>)
      [] w = 3 -> Resp(Daily(60, List([i \in 1..52 |-> IF i % 5 = 0 \/ i > 50 THEN 101 ELSE 100])))
      [] w = 4 -> Resp(<<Pt(58, 100), Pt(59, 102), Pt(60, 101)>>)
      [] OTHER -> Raises

\* thirty days, 31..60
Month(vals) == Daily(60, vals)
Flat(v) == List([i \in 1..30 |-> v])
Zigzag(a, b) == List([i \in 1..30 |-> IF i % 2 = 1 THEN a ELSE b])

\* the monthly series of CONSUMER_HEALTH: PCE, CPIAUCSL, PI
ConsumerSeries(w, symbol) ==
    CASE w = 1 -> Resp(IF symbol = "PCE" THEN <<Pt(59, 100)>> ELSE <<Pt(60, 100)>>)
      [] w = 2 -> Resp(CASE symbol = "PCE" ->
                              <<PtNone(55), Pt(56, 100), Pt(57, 102), Pt(58, 102),
                                Pt(59, 102), Pt(60, 102)>>
                         [] symbol = "CPIAUCSL" -> Daily(60, List([i \in 1..6 |-> 100]))
                         [] OTHER -> Daily(60, <<100, 100, 100, 100, 104>>))
      [] w = 3 -> Resp(CASE symbol = "PI" -> Month(List([i \in 1..30 |-> IF i = 30 THEN 101 ELSE 100]))
                         [] OTHER -> Month(Flat(100)))
      [] w = 4 -> Resp(CASE symbol = "PCE" -> Daily(60, <<100, 110, 99>>)
                         [] symbol = "CPIAUCSL" -> Daily(60, <<0, 5, 5>>)
                         [] OTHER -> Daily(60, <<100, 100, 100>>))
      [] OTHER -> Raises

\* the series of BOND_MARKET_STABILITY
BondSeries(w, symbol) ==
    CASE w = 1 -> Resp(IF symbol = "BAMLH0A0HYM2" THEN Daily(60, List([i \in 1..29 |-> 4]))
                       ELSE Month(Flat(4)))
      [] w = 2 -> Resp(CASE symbol = "BAMLH0A0HYM2" -> Month(Zigzag(4, 6))
                         [] symbol = "DGS2" -> Month(Flat(2))
                         [] symbol = "DGS3MO" -> Month(Flat(1))
                         [] symbol = "DGS30" -> Month(Flat(5))
                         [] OTHER -> Month(Flat(3)))
      [] w = 3 -> CASE symbol = "ACMTP10" -> Raises
                    [] symbol = "DGS2" -> Resp(Month(Zigzag(3, 1)))
                    [] symbol \in {"DGS30", "DGS5"} -> Resp(<<>>)
                    [] OTHER -> Resp(Month(Flat(4)))
      [] w = 4 -> IF symbol = "DGS2" THEN Raises ELSE Resp(Month(Flat(4)))
      [] OTHER -> Raises

\* the series of LIQUIDITY_PROXY: M2SL monthly, WALCL weekly, RRPONTSYD daily
LiquiditySeries(w, symbol) ==
    CASE w = 1 -> Resp(Daily(60, List([i \in 1..29 |-> 7])))
      [] w = 2 -> Resp(CASE symbol = "M2SL" -> <<Pt(45, 100), Pt(60, 100)>>
                         [] symbol = "WALCL" -> <<Pt(31, 8), Pt(38, 8), Pt(52, 8)>>
                         [] OTHER -> Month(Zigzag(1, 3)))
      [] w = 3 -> Resp(CASE symbol = "M2SL" -> <<Pt(31, 100), Pt(50, 100)>>
                         [] symbol = "WALCL" -> <<Pt(31, 8), Pt(38, 8), Pt(52, 8)>>
                         [] OTHER -> Month(Zigzag(1, 3)))
      [] w = 4 -> IF symbol = "WALCL" THEN Raises ELSE Resp(Month(Flat(7)))
      [] OTHER -> Raises

\* FredClient.fetch_series / YahooClient.fetch_series
fetch_series(w, symbol) ==
    CASE symbol = "^VIX" -> VixSeries(w)
      [] symbol = "DFF" -> DffSeries(w)
      [] symbol = "SPY" -> SpySeries(w)
      [] symbol \in {"PCE", "CPIAUCSL", "PI"} -> ConsumerSeries(w, symbol)
      [] symbol \in {"BAMLH0A0HYM2", "BAMLC0A0CM", "DGS10", "DGS2", "DGS3MO", "DGS30",
                     "DGS5", "ACMTP10"} -> BondSeries(w, symbol)
      [] symbol \in {"M2SL", "WALCL", "RRPONTSYD"} -> LiquiditySeries(w, symbol)
      [] OTHER -> Raises

-----------------------------------------------------------------------------
(* etl_runner.py: ETLRunner.ingest_indicator, up to the rows it would store *)

\* ind.source.upper() if ind.source else ""
Upper(source) ==
    CASE source = "fred" -> "FRED"
      [] source = "yahoo" -> "YAHOO"
      [] source = "derived" -> "DERIVED"
      [] OTHER -> source

\* [x for x in series if x["value"] is not None]
CleanValues(series) == SelectSeq(series, LAMBDA x : ~IsNone(x.value))

DatesOf(clean) == List([i \in 1..Len(clean) |-> clean[i].date])
ValuesOf(clean) == List([i \in 1..Len(clean) |-> Get(clean[i].value)])

Failure(kind) ==
    [ok |-> FALSE, err |-> kind, dates |-> <<>>, raw |-> <<>>, fed |-> <<>>, unit |-> 1]
\* dates: the dates of clean_values; raw: raw_series; fed: the series handed to
\* normalize_series; unit: how many units of raw and fed make 1.0
Derived(dates, raw, fed, unit) ==
    [ok |-> TRUE, err |-> "", dates |-> dates, raw |-> raw, fed |-> fed, unit |-> unit]

\* {x["date"]: x["value"] for x in s if x["value"] is not None}: a later point
\* of a date replaces an earlier one
series_to_dict(series) ==
    LET at(d) == {i \in 1..Len(series) : series[i].date = d /\ ~IsNone(series[i].value)}
    IN  [d \in {series[i].date : i \in {j \in 1..Len(series) : ~IsNone(series[j].value)}} |->
            Get(series[CHOOSE i \in at(d) : \A j \in at(d) : j <= i].value)]

\* a sort that returns the dates newest first
SortedDescending(set) ==
    List([k \in 1..Cardinality(set) |->
            CHOOSE x \in set : Cardinality({y \in set : y > x}) = k - 1])

\* sorted(set)
Sorted(set) ==
    List([k \in 1..Cardinality(set) |->
            CHOOSE x \in set : Cardinality({y \in set : y < x}) = k - 1])

Along(dict, dates) == List([i \in 1..Len(dates) |-> dict[dates[i]]])

\* a percent change taken relative to the current value
PctChangeOfCurrent(cur, prev) == IF cur # 0 THEN ((cur - prev) * 10000) \div cur ELSE 0

\* ((cur - prev) / prev) * 100 in basis points, 0 when prev is 0
PctChange(cur, prev) == IF prev # 0 THEN ((cur - prev) * 10000) \div prev ELSE 0

\* month-over-month percent change: 0 first, then PctChange of neighbours
MoM(raw) == List([i \in 1..Len(raw) |-> IF i = 1 THEN 0 ELSE PctChange(raw[i], raw[i - 1])])

\* CONSUMER_HEALTH: PCE, CPI and PI on their common dates; the mean of the
\* spreads (PCE growth - CPI growth) and (PI growth - CPI growth), kept as
\* their sum in basis points (200 units make one percent)
DeriveConsumerHealth(w) ==
    LET Health(common_dates, pce_mom, cpi_mom, pi_mom) ==
            LET consumer_health ==
                    List([i \in 1..Len(common_dates) |->
                            (pce_mom[i] - cpi_mom[i]) + (pi_mom[i] - cpi_mom[i])])
            IN  Derived(common_dates, consumer_health, consumer_health, 200)
        Aligned(pce_dict, cpi_dict, pi_dict, common_dates) ==
            IF Len(common_dates) = 0 THEN Failure("NoValidData")
            ELSE Health(common_dates,
                        MoM(Along(pce_dict, common_dates)),
                        MoM(Along(cpi_dict, common_dates)),
                        MoM(Along(pi_dict, common_dates)))
        Dicts(pce_dict, cpi_dict, pi_dict) ==
            Aligned(pce_dict, cpi_dict, pi_dict,
                    Sorted(DOMAIN pce_dict \cap DOMAIN cpi_dict \cap DOMAIN pi_dict))
        Fetched(pce_series, cpi_series, pi_series) ==
            IF ~pce_series.ok \/ ~cpi_series.ok \/ ~pi_series.ok THEN Failure("ProviderError")
            ELSE Dicts(series_to_dict(pce_series.series),
                       series_to_dict(cpi_series.series),
                       series_to_dict(pi_series.series))
    IN  Fetched(fetch_series(w, "PCE"), fetch_series(w, "CPIAUCSL"), fetch_series(w, "PI"))

\* calc_mom_pct of the components endpoint: the change of each point of the
\* fetched series against the point before it, None values included; the
\* subtraction raises TypeError when one of the two is None and the earlier
\* one is not 0
calc_mom_pct(series) ==
    LET Prev0(i) == series[i - 1].value = Some(0)
    IN  IF \E i \in 2..Len(series) :
                ~Prev0(i) /\ (IsNone(series[i - 1].value) \/ IsNone(series[i].value))
        THEN [ok |-> FALSE, rows |-> <<>>]
        ELSE [ok |-> TRUE,
              rows |-> List([i \in 1..Len(series) |->
                          [date |-> series[i].date, value |-> series[i].value,
                           mom_pct |-> IF i = 1 \/ Prev0(i) THEN 0
                                       ELSE PctChange(Get(series[i].value),
                                                      Get(series[i - 1].value))]])]

\* GET /indicators/CONSUMER_HEALTH/components: the three series as fetched,
\* their month-over-month changes, and on the common dates
\* consumer_health = pce_vs_cpi + pi_vs_cpi, in basis points (100 units make
\* one percent)
get_indicator_components(w) ==
    LET ByDate(with_mom) ==
            [d \in {with_mom[i].date : i \in 1..Len(with_mom)} |->
                with_mom[CHOOSE i \in 1..Len(with_mom) :
                            /\ with_mom[i].date = d
                            /\ \A j \in 1..Len(with_mom) : with_mom[j].date = d => j <= i]]
        Result(pce_dict, cpi_dict, pi_dict, common_dates) ==
            [ok |-> TRUE, unit |-> 100,
             rows |-> List([k \in 1..Len(common_dates) |->
                        [date |-> common_dates[k],
                         consumer_health |->
                            (pce_dict[common_dates[k]].mom_pct - cpi_dict[common_dates[k]].mom_pct)
                          + (pi_dict[common_dates[k]].mom_pct - cpi_dict[common_dates[k]].mom_pct)]])]
        Dicts(pce_dict, cpi_dict, pi_dict) ==
            Result(pce_dict, cpi_dict, pi_dict,
                   Sorted(DOMAIN pce_dict \cap DOMAIN cpi_dict \cap DOMAIN pi_dict))
        WithMom(pce_with_mom, cpi_with_mom, pi_with_mom) ==
            IF ~pce_with_mom.ok \/ ~cpi_with_mom.ok \/ ~pi_with_mom.ok
            THEN [ok |-> FALSE, unit |-> 100, rows |-> <<>>]
            ELSE Dicts(ByDate(pce_with_mom.rows), ByDate(cpi_with_mom.rows),
                       ByDate(pi_with_mom.rows))
        Fetched(pce_data, cpi_data, pi_data) ==
            IF ~pce_data.ok \/ ~cpi_data.ok \/ ~pi_data.ok
            THEN [ok |-> FALSE, unit |-> 100, rows |-> <<>>]
            ELSE WithMom(calc_mom_pct(pce_data.series), calc_mom_pct(cpi_data.series),
                         calc_mom_pct(pi_data.series))
    IN  Fetched(fetch_series(w, "PCE"), fetch_series(w, "CPIAUCSL"), fetch_series(w, "PI"))

\* floor(k * z) for every value of vals, z its population z-score, for a
\* list whose standard deviation is not 0; |z| <= sqrt(n)
ZTimes(vals, k) ==
    LET Within(st, top) ==
            List([i \in 1..Len(vals) |->
                FloorDivSqrt(k * (st.n * ((vals[i] - st.c) \div st.g) - st.S), st.V,
                             -top, top + 1)])
        Of(st) == Within(st, k * (Isqrt(st.n) + 1))
    IN  Of(Stats(vals, vals))

Clip(v, lo, hi) == IF v < lo THEN lo ELSE IF v > hi THEN hi ELSE v
Negated(vals) == List([i \in 1..Len(vals) |-> -vals[i]])

\* z_score_to_100: clip(50 + 25 * z, 0, 100), 50 throughout when std = 0; in
\* hundredths
z_score_to_100(vals, invert) ==
    IF Stats(vals, vals).V = 0 THEN List([i \in 1..Len(vals) |-> 5000])
    ELSE LET Scores(z25) == List([i \in 1..Len(vals) |-> Clip(5000 + z25[i], 0, 10000)])
         IN  Scores(ZTimes(IF invert THEN Negated(vals) ELSE vals, 2500))

\* population standard deviation of a list, in thousandths
StdMilli(vals) ==
    LET Of(st) == (st.g * Isqrt(st.V * 10000) * 10) \div st.n
    IN  Of(Stats(vals, vals))

RocPeriods == 63
VolWindow == 20

\* compute_roc: vals[i] - vals[i - periods] from index `periods` on, 0 before
compute_roc(vals, periods) ==
    List([i \in 1..Len(vals) |-> IF i > periods THEN vals[i] - vals[i - periods] ELSE 0])

\* |change| of consecutive values, 0 first
AbsChanges(vals) ==
    List([i \in 1..Len(vals) |-> IF i = 1 THEN 0 ELSE Abs(vals[i] - vals[i - 1])])

\* rolling_vol: 0 first; the std of the changes so far (expanding) before a
\* full window exists, then the std of the `window` changes before the point
RollingVol(changes, window) ==
    List([i \in 1..Len(changes) |->
        IF i = 1 THEN 0
        ELSE IF i <= window THEN StdMilli(SubSeq(changes, 1, i))
        ELSE StdMilli(SubSeq(changes, i - window, i - 1))])

\* weights that drop the term premium and keep the other four as they were
BondWeightsNotRedistributed(has_term_premium) ==
    IF has_term_premium
    THEN [credit |-> 40, curve |-> 20, momentum |-> 15, volatility |-> 15, premium |-> 10]
    ELSE [credit |-> 40, curve |-> 20, momentum |-> 15, volatility |-> 15, premium |-> 0]

\* get_bond_composite_components: the weights of the component breakdown
ComponentWeights == [credit |-> 44, curve |-> 23, momentum |-> 17, volatility |-> 16]

\* the weights of the composite, in percent
BondWeights(has_term_premium) ==
    IF has_term_premium
    THEN [credit |-> 40, curve |-> 20, momentum |-> 15, volatility |-> 15, premium |-> 10]
    ELSE [credit |-> 44, curve |-> 23, momentum |-> 17, volatility |-> 16, premium |-> 0]

Covers(dict, dates) == \A i \in 1..Len(dates) : dates[i] \in DOMAIN dict

\* BOND_MARKET_STABILITY: five required series on their common dates, 30/5
\* year yields and the term premium when they cover them.  Means of curves
\* and of rates of change are kept as sums (z_score_to_100 is scale free);
\* credit stress is kept as hy + ig.  The composite is in hundredths.
DeriveBondMarketStability(w) ==
    LET Composite(common_dates, hy_stress, ig_stress, curve_health, rates_momentum_stress,
                  treasury_volatility_stress, term_premium_stress, weights) ==
            LET composite_stress ==
                    List([i \in 1..Len(common_dates) |->
                        ((hy_stress[i] + ig_stress[i]) * weights.credit
                         + 2 * (curve_health[i] * weights.curve
                                + rates_momentum_stress[i] * weights.momentum
                                + treasury_volatility_stress[i] * weights.volatility
                                + term_premium_stress[i] * weights.premium)) \div 200])
            IN  Derived(common_dates, composite_stress, composite_stress, 100)
        Momentum(roc_2y, roc_10y) ==
            z_score_to_100(List([i \in 1..Len(roc_2y) |-> roc_2y[i] + roc_10y[i]]), FALSE)
        Stresses(common_dates, hy_oas_vals, ig_oas_vals, dgs10_vals, dgs2_vals, curve_scores,
                 term_premium, has_term_premium) ==
            Composite(common_dates,
                      z_score_to_100(hy_oas_vals, FALSE),
                      z_score_to_100(ig_oas_vals, FALSE),
                      z_score_to_100(curve_scores, TRUE),
                      Momentum(compute_roc(dgs2_vals, RocPeriods),
                               compute_roc(dgs10_vals, RocPeriods)),
                      z_score_to_100(RollingVol(AbsChanges(dgs10_vals), VolWindow), FALSE),
                      IF has_term_premium
                      THEN z_score_to_100(Along(term_premium, common_dates), FALSE)
                      ELSE List([i \in 1..Len(common_dates) |-> 0]),
                      BondWeights(has_term_premium))
        Curves(common_dates, dgs10_vals, dgs2_vals, dgs3mo_vals, dgs30, dgs5, has_30y_5y) ==
            List([i \in 1..Len(common_dates) |->
                (dgs10_vals[i] - dgs2_vals[i]) + (dgs10_vals[i] - dgs3mo_vals[i])
                + (IF has_30y_5y THEN dgs30[common_dates[i]] - dgs5[common_dates[i]] ELSE 0)])
        Values(common_dates, hy_oas, ig_oas, dgs10_vals, dgs2_vals, dgs3mo_vals, dgs30, dgs5,
               term_premium) ==
            Stresses(common_dates, Along(hy_oas, common_dates), Along(ig_oas, common_dates),
                     dgs10_vals, dgs2_vals,
                     Curves(common_dates, dgs10_vals, dgs2_vals, dgs3mo_vals, dgs30, dgs5,
                            /\ DOMAIN dgs30 # {} /\ DOMAIN dgs5 # {}
                            /\ Covers(dgs30, common_dates) /\ Covers(dgs5, common_dates)),
                     term_premium,
                     DOMAIN term_premium # {} /\ Covers(term_premium, common_dates))
        Aligned(common_dates, hy_oas, ig_oas, dgs10, dgs2, dgs3mo, dgs30, dgs5, term_premium) ==
            IF Len(common_dates) < MinOverlap THEN Failure("InsufficientData")
            ELSE Values(common_dates, hy_oas, ig_oas, Along(dgs10, common_dates),
                        Along(dgs2, common_dates), Along(dgs3mo, common_dates), dgs30, dgs5,
                        term_premium)
        Dicts(hy_oas, ig_oas, dgs10, dgs2, dgs3mo, dgs30, dgs5, term_premium) ==
            Aligned(Sorted(DOMAIN hy_oas \cap DOMAIN ig_oas \cap DOMAIN dgs10
                           \cap DOMAIN dgs2 \cap DOMAIN dgs3mo),
                    hy_oas, ig_oas, dgs10, dgs2, dgs3mo, dgs30, dgs5, term_premium)
        Fetched(hy_oas_series, ig_oas_series, dgs10_series, dgs2_series, dgs3mo_series,
                dgs30_series, dgs5_series, term_premium_series) ==
            IF \E r \in {hy_oas_series, ig_oas_series, dgs10_series, dgs2_series,
                         dgs3mo_series, dgs30_series, dgs5_series} : ~r.ok
            THEN Failure("ProviderError")
            ELSE Dicts(series_to_dict(hy_oas_series.series),
                       series_to_dict(ig_oas_series.series),
                       series_to_dict(dgs10_series.series),
                       series_to_dict(dgs2_series.series),
                       series_to_dict(dgs3mo_series.series),
                       series_to_dict(dgs30_series.series),
                       series_to_dict(dgs5_series.series),
                       IF term_premium_series.ok
                       THEN series_to_dict(term_premium_series.series) ELSE <<>>)
    IN  Fetched(fetch_series(w, "BAMLH0A0HYM2"), fetch_series(w, "BAMLC0A0CM"),
                fetch_series(w, "DGS10"), fetch_series(w, "DGS2"), fetch_series(w, "DGS3MO"),
                fetch_series(w, "DGS30"), fetch_series(w, "DGS5"),
                fetch_series(w, "ACMTP10"))

\* forward_fill: on each date the last known value; no entry before the first
forward_fill(data_dict, all_dates) ==
    LET known(i) == {j \in 1..i : all_dates[j] \in DOMAIN data_dict}
    IN  [d \in {all_dates[i] : i \in {k \in 1..Len(all_dates) : known(k) # {}}} |->
            LET i == CHOOSE k \in 1..Len(all_dates) : all_dates[k] = d
                j == CHOOSE k \in known(i) : \A m \in known(i) : m <= k
            IN  data_dict[all_dates[j]]]

PeriodsPerYear == 12

\* a list's z-scores times 15 in hundredths, zeros when std = 0
Z15(vals) ==
    IF Stats(vals, vals).V = 0 THEN List([i \in 1..Len(vals) |-> 0]) ELSE ZTimes(vals, 1500)

\* LIQUIDITY_PROXY: three series forward filled over the union of their
\* dates; stress = clip(50 - 15 * (z(M2 YoY%) + z(Fed delta) - z(RRP)), 0,
\* 100), in hundredths
DeriveLiquidityProxy(w) ==
    LET Stress(common_dates, z_m2_yoy, z_fed_delta, z_rrp) ==
            LET liquidity_stress ==
                    List([i \in 1..Len(common_dates) |->
                        Clip(5000 - (z_m2_yoy[i] + z_fed_delta[i] - z_rrp[i]), 0, 10000)])
            IN  Derived(common_dates, liquidity_stress, liquidity_stress, 100)
        Values(common_dates, m2_vals, fed_bs_vals, rrp_vals) ==
            Stress(common_dates,
                   Z15(List([i \in 1..Len(common_dates) |->
                           IF i > PeriodsPerYear
                           THEN ((m2_vals[i] - m2_vals[i - PeriodsPerYear]) * 10000)
                                \div m2_vals[i - PeriodsPerYear]
                           ELSE 0])),
                   Z15(List([i \in 1..Len(common_dates) |->
                           IF i = 1 THEN 0 ELSE fed_bs_vals[i] - fed_bs_vals[i - 1]])),
                   Z15(rrp_vals))
        Common(common_dates, m2_filled, fed_bs_filled, rrp_filled) ==
            IF Len(common_dates) < MinOverlap THEN Failure("InsufficientData")
            ELSE Values(common_dates, Along(m2_filled, common_dates),
                        Along(fed_bs_filled, common_dates), Along(rrp_filled, common_dates))
        Filled(all_dates, m2_filled, fed_bs_filled, rrp_filled) ==
            Common(SelectSeq(all_dates,
                             LAMBDA d : /\ d \in DOMAIN m2_filled
                                        /\ d \in DOMAIN fed_bs_filled
                                        /\ d \in DOMAIN rrp_filled),
                   m2_filled, fed_bs_filled, rrp_filled)
        Union(all_dates, m2_dict, fed_bs_dict, rrp_dict) ==
            IF Len(all_dates) < MinOverlap THEN Failure("InsufficientData")
            ELSE Filled(all_dates, forward_fill(m2_dict, all_dates),
                        forward_fill(fed_bs_dict, all_dates),
                        forward_fill(rrp_dict, all_dates))
        Dicts(m2_dict, fed_bs_dict, rrp_dict) ==
            Union(Sorted(DOMAIN m2_dict \cup DOMAIN fed_bs_dict \cup DOMAIN rrp_dict),
                  m2_dict, fed_bs_dict, rrp_dict)
        Fetched(m2_series, fed_bs_series, rrp_series) ==
            IF ~m2_series.ok \/ ~fed_bs_series.ok \/ ~rrp_series.ok
            THEN Failure("ProviderError")
            ELSE Dicts(series_to_dict(m2_series.series),
                       series_to_dict(fed_bs_series.series),
                       series_to_dict(rrp_series.series))
    IN  Fetched(fetch_series(w, "M2SL"), fetch_series(w, "WALCL"),
                fetch_series(w, "RRPONTSYD"))

\* the DFF branch: the rate of change is normalized, clean_values loses its
\* first point, raw_series is left as fetched
RateOfChange(raw_series) ==
    List([i \in 1..(Len(raw_series) - 1) |-> raw_series[i + 1] - raw_series[i]])

\* a DFF branch that drops the last date in place of the first
DeriveDFFDropsLastDate(clean) ==
    LET Changes(raw_series) ==
            Derived(DatesOf(SubSeq(clean, 1, Len(clean) - 1)), raw_series,
                    RateOfChange(raw_series), 1)
    IN  Changes(ValuesOf(clean))

DeriveDFF(clean) ==
    LET Changes(raw_series) ==
            Derived(DatesOf(Tail(clean)), raw_series, RateOfChange(raw_series), 1)
    IN  Changes(ValuesOf(clean))

\* the SPY branch: the gap to the 50-day EMA in percent, kept in hundredths of
\* a percent; the EMA is kept in ten-thousandths
EmaPeriod == 50

\* ema[i] = alpha * prices[i] + (1 - alpha) * ema[i-1], alpha = 2/(period+1),
\* for i = lo..hi, prev being ema[lo-1]; by halves
RECURSIVE EmaFrom(_, _, _, _)
EmaFrom(prices, lo, hi, prev) ==
    IF lo > hi THEN <<>>
    ELSE IF lo = hi
    THEN <<(2 * prices[lo] * 10000 + (EmaPeriod - 1) * prev) \div (EmaPeriod + 1)>>
    ELSE LET mid == (lo + hi) \div 2
             left == EmaFrom(prices, lo, mid, prev)
         IN  left \o EmaFrom(prices, mid + 1, hi, left[Len(left)])

\* ema[0] = prices[0]
EmaSeries(prices) ==
    <<prices[1] * 10000>> \o EmaFrom(prices, 2, Len(prices), prices[1] * 10000)

GapPct(prices) ==
    LET Gap(ema) ==
            List([i \in 1..Len(prices) |-> ((prices[i] * 10000 - ema[i]) * 10000) \div ema[i]])
    IN  Gap(EmaSeries(prices))

\* raw_series and the normalized series are both given in hundredths
DeriveSPY(clean) ==
    LET Gap(raw_series, prices) ==
            IF Len(prices) < EmaPeriod
            THEN Derived(DatesOf(clean), prices, prices, 100)
            ELSE Derived(DatesOf(clean), prices, GapPct(raw_series), 100)
        Priced(raw_series) ==
            Gap(raw_series, List([i \in 1..Len(raw_series) |-> raw_series[i] * 100]))
    IN  Priced(ValuesOf(clean))

DeriveStandard(clean) ==
    LET Plain(raw_series) == Derived(DatesOf(clean), raw_series, raw_series, 1)
    IN  Plain(ValuesOf(clean))

\* fetch, drop missing values, apply the indicator's transform
Derive(ind, w) ==
    LET Transform(clean) ==
            IF Len(clean) = 0 THEN Failure("NoValidData")
            ELSE IF ind.code = "DFF" THEN DeriveDFF(clean)
            ELSE IF ind.code = "SPY" THEN DeriveSPY(clean)
            ELSE DeriveStandard(clean)
        Fetched(resp) ==
            IF ~resp.ok THEN Failure("ProviderError")
            ELSE Transform(CleanValues(resp.series))
        From(source_upper) ==
            IF source_upper = "DERIVED"
            THEN CASE ind.code = "CONSUMER_HEALTH" -> DeriveConsumerHealth(w)
                   [] ind.code = "BOND_MARKET_STABILITY" -> DeriveBondMarketStability(w)
                   [] ind.code = "LIQUIDITY_PROXY" -> DeriveLiquidityProxy(w)
                   [] OTHER -> Failure("UnknownDerived")
            ELSE IF source_upper \notin {"FRED", "YAHOO"} THEN Failure("UnknownSource")
            ELSE Fetched(fetch_series(w, ind.source_symbol))
    IN  From(Upper(ind.source))

NoPlan(kind) == [ok |-> FALSE, err |-> kind, points |-> <<>>]

\* Python's s[i] for a negative index i
FromEnd(s, i) == s[Len(s) + i + 1]

\* what ingest_indicator does for a configured indicator before it touches
\* the table: an exception, or the points its persist step goes through, in
\* its order (for i in range(-num_points, 0); index -1 alone when
\* backfill_days = 0).  A point is the row the step builds for index i, and
\* the value that was normalized at that index.
IngestPlan(ind, backfill_days, w) ==
    LET Points(d, normalized_series, scores, states, num_points) ==
            List([k \in 1..num_points |->
                [row |-> [indicator |-> ind.code,
                          timestamp |-> FromEnd(d.dates, k - num_points - 1),
                          raw_value |-> FromEnd(d.raw, k - num_points - 1),
                          normalized_value |-> FromEnd(normalized_series, k - num_points - 1),
                          score |-> FromEnd(scores, k - num_points - 1),
                          state |-> FromEnd(states, k - num_points - 1)],
                 fed |-> FromEnd(d.fed, k - num_points - 1)]])
        Scored(d, normalized_series, scores) ==
            Points(d, normalized_series, scores,
                   classify_series(scores, ind.threshold_green_max, ind.threshold_yellow_max),
                   IF backfill_days > 0 THEN Min(backfill_days, Len(d.dates)) ELSE 1)
        Normalized(d, normalized_series) ==
            IF Len(d.dates) = 0 \/ Len(normalized_series) = 0 THEN NoPlan("IndexError")
            ELSE [ok |-> TRUE, err |-> "",
                  points |-> Scored(d, normalized_series, score_series(normalized_series))]
        Fetched(d) ==
            IF ~d.ok THEN NoPlan(d.err)
            ELSE Normalized(d, normalize_series(d.fed, ind.direction,
                                                ind.lookback_days_for_z, d.unit))
    IN  Fetched(Derive(ind, w))

\* the plans of every call the model makes, computed once
Worlds == 1..NumWorlds
BackfillDays == 0..MaxBackfill
Plans ==
    <<>> @@ [ind \in Catalogue, bf \in BackfillDays, w \in Worlds |-> IngestPlan(ind, bf, w)]

\* a lookup that forgets its filter: an unknown code gets the first indicator
IngestionUnfiltered(table, code, backfill_days, w) ==
    LET found == IF code \in CodesOf(table) THEN FindIndicator(table, code) ELSE <<table[1]>>
    IN  Plans[found[1], backfill_days, w]

\* ingest_indicator(code, backfill_days) up to the persist step: the indicator
\* is looked up first
Ingestion(table, code, backfill_days, w) ==
    LET found == FindIndicator(table, code)
    IN  IF found = <<>> THEN NoPlan("NotFound")
        ELSE Plans[found[1], backfill_days, w]

\* the codes ingest is called with: those of the table, and one that is not
CallCodes == CodesOf(indicator) \cup {"NOPE"}

-----------------------------------------------------------------------------
(* The persistence step of ingest_indicator *)

\* a backfill without its existence check
ExistingNever(table, code, timestamp) == FALSE

\* db.query(IndicatorValue).filter(indicator_id == ind.id, timestamp == ts).first()
Existing(table, code, timestamp) ==
    \E r \in BagToSet(table) : r.indicator = code /\ r.timestamp = timestamp

\* an insert that replaces the stored rows of the same indicator and date
AddOrReplace(table, row) ==
    LET kept == {r \in BagToSet(table) :
                    ~(r.indicator = row.indicator /\ r.timestamp = row.timestamp)}
    IN  [r \in kept |-> CopiesIn(r, table)] (+) SetToBag({row})

\* db.add(entry)
Add(table, row) == table (+) SetToBag({row})
Rows(table) == BagCardinality(table)

\* a backfill that goes through the newest point only
StoreBackfillNewest(table, points, k) ==
    IF Existing(table, points[Len(points)].row.indicator, points[Len(points)].row.timestamp)
    THEN table
    ELSE Add(table, points[Len(points)].row)

\* backfill: for each point, oldest first, add a row unless one exists
RECURSIVE StoreBackfill(_, _, _)
StoreBackfill(table, points, k) ==
    IF k > Len(points) THEN table
    ELSE LET r == points[k].row
         IN  IF Existing(table, r.indicator, r.timestamp)
             THEN StoreBackfill(table, points, k + 1)
             ELSE StoreBackfill(Add(table, r), points, k + 1)

\* a latest-only ingest that persists nothing
StoreLatestNothing(table, points) == table

\* latest only: add the row of the final point
StoreLatest(table, points) == Add(table, points[Len(points)].row)

\* the table after ingest_indicator(code, backfill_days) ran on it
Persist(table, plan, backfill_days) ==
    IF ~plan.ok THEN table
    ELSE IF backfill_days > 0 THEN StoreBackfill(table, plan.points, 1)
    ELSE StoreLatest(table, plan.points)

\* a loop without its try/except: the first exception ends it
RECURSIVE IngestEachUncaught(_, _, _, _, _)
IngestEachUncaught(inds, acc, i, backfill_days, w) ==
    LET Stored(code, plan, table) ==
            IngestEachUncaught(inds,
                [table |-> table,
                 results |-> Append(acc.results,
                                [indicator |-> code, ok |-> plan.ok, err |-> plan.err,
                                 stored |-> Rows(table) - Rows(acc.table)])],
                i + 1, backfill_days, w)
        Ingested(code, plan) ==
            IF ~plan.ok THEN acc
            ELSE Stored(code, plan, Persist(acc.table, plan, backfill_days))
    IN  IF i > Len(inds) THEN acc
        ELSE Ingested(inds[i].code, Ingestion(inds, inds[i].code, backfill_days, w))

\* ingest_all_indicators: ingest_indicator for every indicator of the table,
\* in order, an exception becoming an error record.  The state threaded
\* through is [table, results].
RECURSIVE IngestEach(_, _, _, _, _)
IngestEach(inds, acc, i, backfill_days, w) ==
    LET Stored(code, plan, table) ==
            IngestEach(inds,
                [table |-> table,
                 results |-> Append(acc.results,
                                [indicator |-> code, ok |-> plan.ok, err |-> plan.err,
                                 stored |-> Rows(table) - Rows(acc.table)])],
                i + 1, backfill_days, w)
        Ingested(code, plan) == Stored(code, plan, Persist(acc.table, plan, backfill_days))
    IN  IF i > Len(inds) THEN acc
        ELSE Ingested(inds[i].code, Ingestion(inds, inds[i].code, backfill_days, w))

-----------------------------------------------------------------------------
(* etl_runner.py: update_system_status; alert_engine.py *)

Hour == 1     \* timedelta(hours=1), in clock ticks

\* a scan that keeps any row of the indicator, not the newest
NewestOrOlder(table, code) == {r \in BagToSet(table) : r.indicator = code}

\* the rows of an indicator that the descending-timestamp scan can meet first
Newest(table, code) ==
    {r \in BagToSet(table) :
        /\ r.indicator = code
        /\ \A q \in BagToSet(table) :
              q.indicator = code => q.timestamp <= r.timestamp}

WithData(table) == {r.indicator : r \in BagToSet(table)}

\* "latest": one row per indicator that has rows, the first the scan meets;
\* rows with equal timestamps come in an order the database chooses
LatestChoices(table) ==
    {pick \in [WithData(table) -> BagToSet(table)] :
        \A c \in WithData(table) : pick[c] \in Newest(table, c)}

CountState(pick, state) ==
    Cardinality({c \in DOMAIN pick : pick[c].state = state})

RECURSIVE SumScores(_, _)
SumScores(pick, cs) ==
    IF cs = {} THEN 0
    ELSE LET c == CHOOSE x \in cs : TRUE
         IN  pick[c].score + SumScores(pick, cs \ {c})

\* the RED rule off by one
SystemStateThreeRed(red_count, yellow_count) ==
    IF red_count >= 3 THEN "RED"
    ELSE IF yellow_count >= 3 THEN "YELLOW"
    ELSE "GREEN"

SystemState(red_count, yellow_count) ==
    IF red_count >= 2 THEN "RED"
    ELSE IF yellow_count >= 3 THEN "YELLOW"
    ELSE "GREEN"

\* the composite score as the fraction num/den
Snapshot(pick, t) ==
    LET red_count == CountState(pick, "RED")
        yellow_count == CountState(pick, "YELLOW")
        n == Cardinality(DOMAIN pick)
    IN  [timestamp |-> t,
         composite_score |-> IF n > 0
                             THEN [num |-> SumScores(pick, DOMAIN pick), den |-> n]
                             ELSE [num |-> 50, den |-> 1],
         state |-> SystemState(red_count, yellow_count),
         red_count |-> red_count,
         yellow_count |-> yellow_count]

\* db.query(Indicator).filter(Indicator.last_state == "RED").all(), as codes
RECURSIVE RedIndicators(_, _)
RedIndicators(inds, i) ==
    IF i > Len(inds) THEN <<>>
    ELSE (IF inds[i].last_state = "RED" THEN <<inds[i].code>> ELSE <<>>)
         \o RedIndicators(inds, i + 1)

\* an alert of type RED_THRESHOLD with timestamp >= now - 1 hour
RecentAlert(alerts, t) ==
    \E i \in 1..Len(alerts) :
        alerts[i].timestamp >= t - Hour /\ alerts[i].type = "RED_THRESHOLD"

\* check_alert_conditions: the alert table afterwards
AlertsAfterCheck(alerts, inds, t) ==
    LET red_indicators == RedIndicators(inds, 1)
        red_count == Len(red_indicators)
    IN  IF red_count >= 2 /\ ~RecentAlert(alerts, t)
        THEN Append(alerts, [timestamp |-> t, type |-> "RED_THRESHOLD",
                             red_count |-> red_count,
                             affected_indicators |-> red_indicators])
        ELSE alerts

-----------------------------------------------------------------------------
(* The state machine *)

\* a batch run (scheduled_etl_job, /admin/ingest/run, /admin/backfill) is
\* idle, suspended at the await of the fetch of indicator i, or done; an
\* alert check of a worker thread is idle, has read the tables, or is done
Runs == 1..MaxRuns
Checks == 1..MaxChecks
NoTasks ==
    [run |-> [r \in Runs |-> [pc |-> "idle", backfill_days |-> 0, i |-> 0, results |-> <<>>]],
     check |-> [c \in Checks |-> [pc |-> "idle", red_indicators |-> <<>>, recent_alert |-> FALSE]]]

Call(op, code, bf, w, ok, err, inserted, results, rep, alerted) ==
    [op |-> op, code |-> code, backfill_days |-> bf, world |-> w, ok |-> ok,
     err |-> err, inserted |-> inserted, results |-> results, rep |-> rep,
     alerted |-> alerted]

Init ==
    /\ indicator_value = EmptyBag
    /\ system_status = <<>>
    /\ alert = <<>>
    /\ indicator \in Configurations
    /\ now = 0
    /\ last = Call("start", "", 0, 0, TRUE, "", 0, <<>>, 0, FALSE)
    /\ task = NoTasks

\* ETLRunner.ingest_indicator(code, backfill_days) against provider world w
IngestIndicator(code, bf, w) ==
    \E plan \in {Ingestion(indicator, code, bf, w)} :
        \E table \in {Persist(indicator_value, plan, bf)} :
            /\ Rows(table) <= MaxRows
            /\ indicator_value' = table
            /\ last' = Call("ingest", code, bf, w, plan.ok, plan.err,
                            Rows(table) - Rows(indicator_value), <<>>,
                            IF /\ last.op = "ingest" /\ last.ok /\ last.code = code
                               /\ last.backfill_days = bf /\ last.world = w
                            THEN 1 + last.inserted ELSE 0,
                            FALSE)
            /\ UNCHANGED <<system_status, alert, indicator, now, task>>

\* ETLRunner.ingest_all_indicators(backfill_days) against provider world w
IngestAll(bf, w) ==
    \E end \in {IngestEach(indicator, [table |-> indicator_value, results |-> <<>>],
                           1, bf, w)} :
        /\ Rows(end.table) <= MaxRows
        /\ indicator_value' = end.table
        /\ last' = Call("ingest_all", "", bf, w, TRUE, "",
                        Rows(end.table) - Rows(indicator_value), end.results, 0, FALSE)
        /\ UNCHANGED <<system_status, alert, indicator, now, task>>

\* whether ingest_indicator suspends before it persists: FredClient.fetch_series
\* is awaited, YahooClient.fetch_series is called synchronously, and an
\* unknown source or an unknown derived code raises before any await
Awaits(ind) ==
    \/ Upper(ind.source) = "FRED"
    \/ /\ Upper(ind.source) = "DERIVED"
       /\ ind.code \in {"CONSUMER_HEALTH", "BOND_MARKET_STABILITY", "LIQUIDITY_PROXY"}

\* one turn of the loop of ingest_all_indicators: ingest_indicator for the
\* i-th indicator, an exception becoming an error record
IngestNext(inds, acc, i, backfill_days, w) ==
    LET Stored(code, plan, table) ==
            [table |-> table,
             results |-> Append(acc.results,
                            [indicator |-> code, ok |-> plan.ok, err |-> plan.err,
                             stored |-> Rows(table) - Rows(acc.table)])]
        Ingested(code, plan) == Stored(code, plan, Persist(acc.table, plan, backfill_days))
    IN  Ingested(inds[i].code, Ingestion(inds, inds[i].code, backfill_days, w))

\* the loop from its i-th turn up to the next await, or to its end
RECURSIVE IngestUntilAwait(_, _, _, _, _)
IngestUntilAwait(inds, acc, i, backfill_days, w) ==
    IF i > Len(inds) \/ Awaits(inds[i])
    THEN [table |-> acc.table, results |-> acc.results, i |-> i]
    ELSE IngestUntilAwait(inds, IngestNext(inds, acc, i, backfill_days, w), i + 1,
                          backfill_days, w)

\* a job that skips the status update when an indicator failed
StatusAfterBatchIfAllOk(snapshots, results, entry) ==
    IF \A k \in 1..Len(results) : results[k].ok THEN Append(snapshots, entry) ELSE snapshots

\* scheduled_etl_job / run_all_indicators / backfill_historical_data:
\* status = etl.update_system_status() once the results are back
StatusAfterBatch(snapshots, results, entry) == Append(snapshots, entry)

\* a batch run goes on from `end`, where the loop stands after the event
\* loop ran it up to its next await: it is suspended there, or the loop is
\* over and update_system_status runs before the event loop gets control
RunStep(r, end, bf, w) ==
    /\ Rows(end.table) <= MaxRows
    /\ indicator_value' = end.table
    /\ IF end.i > Len(indicator)
       THEN /\ \E pick \in LatestChoices(end.table) :
                  system_status' = StatusAfterBatch(system_status, end.results,
                                                    Snapshot(pick, now))
            /\ alert' = AlertsAfterCheck(alert, indicator, now)
            /\ task' = [task EXCEPT !.run[r] = [pc |-> "done", backfill_days |-> bf,
                                                i |-> end.i, results |-> end.results]]
       ELSE /\ UNCHANGED <<system_status, alert>>
            /\ task' = [task EXCEPT !.run[r] = [pc |-> "await", backfill_days |-> bf,
                                                i |-> end.i, results |-> end.results]]
    /\ last' = Call("run", "", bf, w, TRUE, "", Rows(end.table) - Rows(indicator_value),
                    end.results, r, FALSE)
    /\ UNCHANGED <<indicator, now>>

\* a batch run starts: ingest_all_indicators(backfill_days) up to its first await
StartRun(r, bf, w) ==
    /\ task.run[r].pc = "idle"
    /\ Len(system_status) + Cardinality({q \in Runs : task.run[q].pc = "await"}) < MaxSnapshots
    /\ \E end \in {IngestUntilAwait(indicator, [table |-> indicator_value, results |-> <<>>],
                                    1, bf, w)} :
          RunStep(r, end, bf, w)

\* the fetch a batch run awaits returns what provider world w holds
ResumeRun(r, w) ==
    /\ task.run[r].pc = "await"
    /\ \E bf \in {task.run[r].backfill_days} :
          \E end \in {IngestUntilAwait(indicator,
                          IngestNext(indicator,
                                     [table |-> indicator_value,
                                      results |-> task.run[r].results],
                                     task.run[r].i, bf, w),
                          task.run[r].i + 1, bf, w)} :
              RunStep(r, end, bf, w)

\* an update that overwrites the newest snapshot when there is one
UpdateSystemStatusInPlace ==
    /\ Len(system_status) < MaxSnapshots
    /\ \E pick \in LatestChoices(indicator_value) :
          system_status' = IF system_status = <<>>
                           THEN <<Snapshot(pick, now)>>
                           ELSE [system_status EXCEPT ![Len(system_status)] = Snapshot(pick, now)]
    /\ alert' = AlertsAfterCheck(alert, indicator, now)
    /\ last' = Call("status", "", 0, 0, TRUE, "", 0, <<>>, 0, Len(alert') > Len(alert))
    /\ UNCHANGED <<indicator_value, indicator, now, task>>

\* ETLRunner.update_system_status(): a new snapshot, then the alert check
UpdateSystemStatus ==
    /\ Len(system_status) < MaxSnapshots
    /\ \E pick \in LatestChoices(indicator_value) :
          system_status' = Append(system_status, Snapshot(pick, now))
    /\ alert' = AlertsAfterCheck(alert, indicator, now)
    /\ last' = Call("status", "", 0, 0, TRUE, "", 0, <<>>, 0, Len(alert') > Len(alert))
    /\ UNCHANGED <<indicator_value, indicator, now, task>>

\* check_alert_conditions(), as the /alerts/check endpoint runs it
CheckAlertConditions ==
    /\ alert' = AlertsAfterCheck(alert, indicator, now)
    /\ last' = Call("check", "", 0, 0, TRUE, "", 0, <<>>, 0, Len(alert') > Len(alert))
    /\ UNCHANGED <<indicator_value, system_status, indicator, now, task>>

\* check_alert_conditions in a worker thread, up to its two queries: the
\* RED indicators and the alert of the last hour
CheckRead(c) ==
    /\ task.check[c].pc = "idle"
    /\ task' = [task EXCEPT !.check[c] =
                    [pc |-> "read", red_indicators |-> RedIndicators(indicator, 1),
                     recent_alert |-> RecentAlert(alert, now)]]
    /\ UNCHANGED <<indicator_value, system_status, alert, indicator, now, last>>

\* check_alert_conditions in a worker thread, from its queries on: the alert
\* is added and committed when the thread found two RED indicators and no
\* recent alert
CheckWrite(c) ==
    /\ task.check[c].pc = "read"
    /\ alert' = IF Len(task.check[c].red_indicators) >= 2 /\ ~task.check[c].recent_alert
                THEN Append(alert, [timestamp |-> now, type |-> "RED_THRESHOLD",
                                    red_count |-> Len(task.check[c].red_indicators),
                                    affected_indicators |-> task.check[c].red_indicators])
                ELSE alert
    /\ task' = [task EXCEPT !.check[c].pc = "done"]
    /\ last' = Call("check", "", 0, 0, TRUE, "", 0, <<>>, c, Len(alert') > Len(alert))
    /\ UNCHANGED <<indicator_value, system_status, indicator, now>>

\* time passes
Tick ==
    /\ now < MaxTime
    /\ now' = now + 1
    /\ UNCHANGED <<indicator_value, system_status, alert, indicator, last, task>>

\* seed_indicators.py: the indicator table is cleared and refilled from the
\* list.  Observations are keyed by code here and by indicator id in the
\* database, so the model seeds while no observation is stored.
SeedIndicators(indicators) ==
    /\ indicator_value = EmptyBag
    /\ indicator' = indicators
    /\ last' = Call("seed", "", 0, 0, TRUE, "", 0, <<>>, 0, FALSE)
    /\ UNCHANGED <<indicator_value, system_status, alert, now, task>>

\* the ingestion operations, as the admin endpoints and the scheduler call them
NextIngest ==
    \/ \E code \in CallCodes, bf \in BackfillDays, w \in Worlds : IngestIndicator(code, bf, w)
    \/ \E bf \in BackfillDays, w \in Worlds : IngestAll(bf, w)

\* the scheduled pipeline: ingest everything, take a snapshot, check alerts
NextPipeline ==
    \/ \E bf \in BackfillDays, w \in Worlds : IngestAll(bf, w)
    \/ UpdateSystemStatus
    \/ CheckAlertConditions
    \/ Tick

Next == NextIngest \/ NextPipeline

Spec == Init /\ [][Next]_vars
SpecIngest == Init /\ [][NextIngest]_vars
SpecPipeline == Init /\ [][NextPipeline]_vars

\* batch runs on the event loop, interleaved at their awaits
NextRuns ==
    \/ \E r \in Runs, bf \in BackfillDays, w \in Worlds : StartRun(r, bf, w)
    \/ \E r \in Runs, w \in Worlds : ResumeRun(r, w)

SpecRuns == Init /\ [][NextRuns]_vars

\* an indicator table whose last_state column has been written: the column
\* is read by check_alert_conditions and written by no code of the
\* repository, so its values come from outside
StatedTables ==
    {[i \in 1..3 |-> [<<VIX, DFF, SPY>>[i] EXCEPT !.last_state = states[i]]] :
        states \in [1..3 -> {"RED", "GREEN"}]}

InitChecks ==
    /\ indicator_value = EmptyBag
    /\ system_status = <<>>
    /\ alert = <<>>
    /\ indicator \in StatedTables
    /\ now = 0
    /\ last = Call("start", "", 0, 0, TRUE, "", 0, <<>>, 0, FALSE)
    /\ task = NoTasks

\* alert checks from the worker threads of /alerts/check and
\* /admin/status/update
NextChecks ==
    \/ \E c \in Checks : CheckRead(c)
    \/ \E c \in Checks : CheckWrite(c)
    \/ Tick

SpecChecks == InitChecks /\ [][NextChecks]_vars

\* a database that is seeded and then ingested into
InitSeeded ==
    /\ indicator_value = EmptyBag
    /\ system_status = <<>>
    /\ alert = <<>>
    /\ indicator = <<>>
    /\ now = 0
    /\ last = Call("start", "", 0, 0, TRUE, "", 0, <<>>, 0, FALSE)
    /\ task = NoTasks

NextSeeded ==
    \/ \E indicators \in SeedLists : SeedIndicators(indicators)
    \/ \E code \in CallCodes, bf \in BackfillDays, w \in Worlds : IngestIndicator(code, bf, w)

SpecSeeded == InitSeeded /\ [][NextSeeded]_vars

-----------------------------------------------------------------------------
(* Properties *)

Observations == BagToSet(indicator_value)

\* C1: after any sequence of ingest calls, latest-only and backfill, the
\* observation table holds at most one row for each (indicator, date)
C1_OneRowPerIndicatorAndDate ==
    \A r \in Observations :
        /\ CopiesIn(r, indicator_value) = 1
        /\ \A q \in Observations :
              (q.indicator = r.indicator /\ q.timestamp = r.timestamp) => q = r

\* an indicator is red by its latest observation when every newest row is RED
RedByLatest ==
    {c \in WithData(indicator_value) :
        \A r \in Newest(indicator_value, c) : r.state = "RED"}

\* C2: update_system_status that computes RED from the latest observations
\* leaves an alert that lists exactly the indicators that are RED by their
\* latest observation
C2_RedStatusLeavesAlert ==
    (/\ last.op = "status"
     /\ system_status[Len(system_status)].state = "RED") =>
        \E i \in 1..Len(alert) :
            /\ alert[i].type = "RED_THRESHOLD"
            /\ {alert[i].affected_indicators[k] :
                    k \in 1..Len(alert[i].affected_indicators)} = RedByLatest

\* the step repeats the successful backfill that ran just before it
RepeatedBackfill ==
    /\ last.op = "ingest" /\ last.ok /\ last.backfill_days > 0
    /\ last'.op = "ingest" /\ last'.ok
    /\ last'.code = last.code
    /\ last'.backfill_days = last.backfill_days
    /\ last'.world = last.world

\* C3: a backfill of an indicator that is run again on the same provider
\* data inserts no row and leaves the observation table as it was
C3_BackfillIdempotent ==
    [][RepeatedBackfill => (last'.inserted = 0 /\ indicator_value' = indicator_value)]_vars

\* a backfill that stored rows was run again
C3_Witness ==
    /\ last.op = "ingest" /\ last.ok /\ last.backfill_days = MaxBackfill
    /\ last.rep > 1
    /\ Rows(indicator_value) >= 2

\* C4: after check_alert_conditions has run while two or more indicators are
\* RED by their latest observation, exactly one RED_THRESHOLD alert of the
\* last hour exists
C4_OneAlertPerHour ==
    (last.op = "check" /\ Cardinality(RedByLatest) >= 2) =>
        Cardinality({i \in 1..Len(alert) :
                        /\ alert[i].type = "RED_THRESHOLD"
                        /\ alert[i].timestamp >= now - Hour}) = 1

\* C5: ingest_all returns one result per configured indicator, in the order
\* of the configuration; an indicator whose ingest raises yields an error
\* record and the indicators after it are still ingested
C5_OneResultPerIndicator ==
    last.op = "ingest_all" =>
        /\ Len(last.results) = Len(indicator)
        /\ \A i \in 1..Len(indicator) :
              LET res == last.results[i]
                  single == Ingestion(indicator, indicator[i].code, last.backfill_days,
                                      last.world)
              IN  /\ res.indicator = indicator[i].code
                  /\ res.ok = single.ok
                  /\ ~res.ok => res.err = single.err /\ res.stored = 0
                  /\ res.ok => \E r \in Observations :
                                  /\ r.indicator = res.indicator
                                  /\ r.timestamp =
                                        single.points[Len(single.points)].row.timestamp

\* ingest_all went past an indicator that raised and ingested a later one
C5_Witness ==
    /\ last.op = "ingest_all"
    /\ \E i, j \in 1..Len(last.results) :
          /\ i < j
          /\ ~last.results[i].ok
          /\ last.results[j].ok /\ last.results[j].stored > 0

\* indicators some / all of whose newest rows are in the band
SomeNewest(band) ==
    {c \in WithData(indicator_value) :
        \E r \in Newest(indicator_value, c) : r.state = band}
AllNewest(band) ==
    {c \in WithData(indicator_value) :
        \A r \in Newest(indicator_value, c) : r.state = band}

\* C6: every snapshot's state is RED if its red count is 2 or more, else
\* YELLOW if its yellow count is 3 or more, else GREEN; the counts of a
\* snapshot just taken are those of the most recent observation of each
\* indicator
C6_StateFromCounts ==
    /\ \A i \in 1..Len(system_status) :
          LET snap == system_status[i]
          IN  snap.state = CASE snap.red_count >= 2 -> "RED"
                             [] snap.red_count < 2 /\ snap.yellow_count >= 3 -> "YELLOW"
                             [] OTHER -> "GREEN"
    /\ last.op = "status" =>
          LET snap == system_status[Len(system_status)]
          IN  /\ Cardinality(AllNewest("RED")) <= snap.red_count
              /\ snap.red_count <= Cardinality(SomeNewest("RED"))
              /\ Cardinality(AllNewest("YELLOW")) <= snap.yellow_count
              /\ snap.yellow_count <= Cardinality(SomeNewest("YELLOW"))

\* a snapshot just taken is YELLOW: three indicators are YELLOW, fewer than
\* two RED
C6_Witness ==
    /\ last.op = "status"
    /\ system_status[Len(system_status)].state = "YELLOW"
    /\ Cardinality(AllNewest("YELLOW")) = 3

\* z >= 2, for z = num / sqrt(den2)
AtLeastTwoSigma(z) == z.num > 0 /\ z.num * z.num >= 4 * z.den2

\* C7: an observation of VIX (direction +1) whose value is a spike two
\* standard deviations or more above the mean scores near 100 and is RED
C7_SpikeIsRed ==
    \A r \in Observations :
        (r.indicator = "VIX" /\ AtLeastTwoSigma(r.normalized_value)) =>
            (r.score >= 90 /\ r.state = "RED")

\* C8: the raw value of every stored observation is the value that was
\* handed to normalization for its date
C8_RawIsDerivedValue ==
    \A key \in DOMAIN Plans :
        \A k \in 1..Len(Plans[key].points) :
            LET point == Plans[key].points[k]
            IN  point.row \in Observations => point.row.raw_value = point.fed

\* the conditions under which ingest has to fail: the code is not configured,
\* the source kind is unknown, or the provider's series has no value left
NotConfigured(code) == code \notin CodesOf(indicator)
UnknownSourceKind(code) ==
    \E i \in 1..Len(indicator) :
        /\ indicator[i].code = code
        /\ indicator[i].source \notin {"FRED", "YAHOO", "DERIVED"}
NoCleanPoint(code, w) ==
    \E i \in 1..Len(indicator) :
        /\ indicator[i].code = code
        /\ indicator[i].source \in {"FRED", "YAHOO"}
        /\ LET resp == fetch_series(w, indicator[i].source_symbol)
           IN  resp.ok /\ \A k \in 1..Len(resp.series) : IsNone(resp.series[k].value)

\* C9: ingest fails, and leaves the observation table unchanged, when the
\* code is not configured (not-found), when the source kind is unknown
\* (unknown-source) or when no clean point remains (insufficient-data)
C9_FailureStoresNothing ==
    [][last'.op = "ingest" =>
          /\ NotConfigured(last'.code) =>
                (~last'.ok /\ last'.err = "NotFound" /\ indicator_value' = indicator_value)
          /\ UnknownSourceKind(last'.code) =>
                (~last'.ok /\ last'.err = "UnknownSource"
                 /\ indicator_value' = indicator_value)
          /\ NoCleanPoint(last'.code, last'.world) =>
                (~last'.ok /\ last'.err = "NoValidData"
                 /\ indicator_value' = indicator_value)]_vars

\* ingest failed for want of clean points, on a table that has rows
C9_Witness ==
    /\ last.op = "ingest" /\ ~last.ok /\ last.err = "NoValidData"
    /\ NoCleanPoint(last.code, last.world)
    /\ Rows(indicator_value) > 0

\* the sub-series a composite builder requires
RequiredSeries(code) ==
    CASE code = "CONSUMER_HEALTH" -> {"PCE", "CPIAUCSL", "PI"}
      [] code = "BOND_MARKET_STABILITY" ->
            {"BAMLH0A0HYM2", "BAMLC0A0CM", "DGS10", "DGS2", "DGS3MO"}
      [] code = "LIQUIDITY_PROXY" -> {"M2SL", "WALCL", "RRPONTSYD"}
      [] OTHER -> {}

\* the dates on which a sub-series has a value
DatesWithValue(w, symbol) ==
    LET series == fetch_series(w, symbol).series
    IN  {series[i].date : i \in {k \in 1..Len(series) : ~IsNone(series[k].value)}}

\* the dates every required sub-series of the builder has a value for: a
\* value of that date or, for the forward-filling liquidity builder, of an
\* earlier one
OverlappingDates(code, w) ==
    {d \in UNION {DatesWithValue(w, sym) : sym \in RequiredSeries(code)} :
        \A sym \in RequiredSeries(code) :
            \E e \in DatesWithValue(w, sym) :
                IF code = "LIQUIDITY_PROXY" THEN e <= d ELSE e = d}

\* C10: ingest of a composite fails and stores nothing when its required
\* sub-series overlap on fewer than 30 dates
C10_CompositeNeedsThirtyDates ==
    (/\ last.op = "ingest"
     /\ RequiredSeries(last.code) # {}
     /\ Cardinality(OverlappingDates(last.code, last.world)) < 30) =>
        (~last.ok /\ last.inserted = 0)

\* the dates of clean_values as the persist step of ingest_indicator finds
\* them, for every indicator and provider response
CleanDates == <<>> @@ [ind \in Catalogue, w \in Worlds |-> Derive(ind, w).dates]

\* the min(backfill_days, available points) most recent clean dates
RecentDates(code, backfill_days, w) ==
    LET dates == CleanDates[FindIndicator(indicator, code)[1], w]
        n == Min(backfill_days, Len(dates))
    IN  {dates[i] : i \in (Len(dates) - n + 1)..Len(dates)}

\* C11: after a successful backfill of N days every one of the min(N,
\* available points) most recent clean dates has a stored observation, and
\* the call inserted rows only for those dates, one per date, and for no
\* date that was already stored
C11_BackfillStoresRecentDates ==
    [][(last'.op = "ingest" /\ last'.ok /\ last'.backfill_days > 0) =>
          LET recent == RecentDates(last'.code, last'.backfill_days, last'.world)
              inserted == indicator_value' (-) indicator_value
          IN  /\ indicator_value \sqsubseteq indicator_value'
              /\ \A t \in recent :
                    \E r \in BagToSet(indicator_value') :
                        r.indicator = last'.code /\ r.timestamp = t
              /\ \A r \in BagToSet(inserted) :
                    /\ r.indicator = last'.code
                    /\ r.timestamp \in recent
                    /\ CopiesIn(r, inserted) = 1
                    /\ \A q \in BagToSet(indicator_value) :
                          ~(q.indicator = r.indicator /\ q.timestamp = r.timestamp)]_vars

\* a backfill of two dates found one of them stored and inserted the other
C11_Witness ==
    /\ last.op = "ingest" /\ last.ok /\ last.backfill_days > 1
    /\ Cardinality(RecentDates(last.code, last.backfill_days, last.world)) = 2
    /\ last.inserted = 1
    /\ Rows(indicator_value) >= 2

\* C12: a successful latest-only ingest (backfill_days = 0) leaves the rows
\* that were stored and one more row, of the indicator and dated at the last
\* clean point of the series
C12_LatestOnlyStoresFinalPoint ==
    [][(last'.op = "ingest" /\ last'.ok /\ last'.backfill_days = 0) =>
          LET dates == CleanDates[FindIndicator(indicator, last'.code)[1], last'.world]
          IN  \E r \in BagToSet(indicator_value') :
                  /\ indicator_value' = indicator_value (+) SetToBag({r})
                  /\ r.indicator = last'.code
                  /\ r.timestamp = dates[Len(dates)]]_vars

\* a latest-only ingest of a series of several clean points added its row to
\* a table that had rows
C12_Witness ==
    /\ last.op = "ingest" /\ last.ok /\ last.backfill_days = 0
    /\ Len(CleanDates[FindIndicator(indicator, last.code)[1], last.world]) > 1
    /\ last.inserted = 1
    /\ Rows(indicator_value) >= 2

\* C13: the composite score of a snapshot just taken is 50 when no
\* observation exists, and otherwise the mean of the scores of one
\* observation of maximum timestamp for each indicator that has observations
C13_CompositeIsMeanOfLatest ==
    last.op = "status" =>
        LET snap == system_status[Len(system_status)]
            codes == {r.indicator : r \in Observations}
        IN  IF codes = {} THEN snap.composite_score = [num |-> 50, den |-> 1]
            ELSE /\ snap.composite_score.den = Cardinality(codes)
                 /\ \E latest \in [codes -> Observations] :
                       /\ \A c \in codes :
                             /\ latest[c].indicator = c
                             /\ \A q \in Observations :
                                   q.indicator = c => q.timestamp <= latest[c].timestamp
                       /\ snap.composite_score.num = SumScores(latest, codes)

\* a snapshot was taken over two or more indicators, one of which has an
\* older observation with another score
C13_Witness ==
    /\ last.op = "status"
    /\ Cardinality({r.indicator : r \in Observations}) >= 2
    /\ \E r, q \in Observations :
          r.indicator = q.indicator /\ r.timestamp < q.timestamp /\ r.score # q.score

C15_ScoreIsRounded ==
    \A r \in Observations :
        LET z == r.normalized_value
            s == r.score
        IN  /\ s \in 0..100
            /\ IF LeqSqrt(2, z.den2, -(z.num)) THEN s = 0
               ELSE IF LeqSqrt(2, z.den2, z.num) THEN s = 100
               ELSE /\ LeqSqrt(2 * s - 101, z.den2, 50 * z.num)
                    /\ LeqSqrt(99 - 2 * s, z.den2, -(50 * z.num))

\* C16: under the boundaries of every seeded indicator, whatever their
\* order, the band of a score is never worse than the band of a lower score
\* (RED < YELLOW < GREEN): for all scores of 0..100, and for the stored
\* observations of the indicator
C16_ClassifyIsMonotonic ==
    LET Rank(state) == CASE state = "RED" -> 0 [] state = "YELLOW" -> 1 [] state = "GREEN" -> 2
    IN  \A i \in 1..Len(indicator) :
            LET gmax == indicator[i].threshold_green_max
                ymax == indicator[i].threshold_yellow_max
            IN  /\ \A s1, s2 \in 0..100 :
                      s1 <= s2 => Rank(classify_state(s1, gmax, ymax))
                                     <= Rank(classify_state(s2, gmax, ymax))
                /\ \A r, q \in Observations :
                      (r.indicator = indicator[i].code /\ q.indicator = r.indicator
                       /\ r.score <= q.score) => Rank(r.state) <= Rank(q.state)

\* an indicator whose green boundary lies above its yellow boundary has two
\* observations with a score between the boundaries and a score above both
C16_Witness ==
    \E i \in 1..Len(indicator) :
        /\ indicator[i].threshold_green_max > indicator[i].threshold_yellow_max
        /\ \E r, q \in Observations :
              /\ r.indicator = indicator[i].code /\ q.indicator = r.indicator
              /\ indicator[i].threshold_yellow_max <= r.score
              /\ r.score < indicator[i].threshold_green_max
              /\ indicator[i].threshold_green_max <= q.score
              /\ r.state = "RED" /\ q.state = "GREEN"

\* C17: every indicator that has a stored observation, and so was seeded,
\* used by ingest and classified, has boundaries with
\* 0 <= green < yellow <= 100
C17_ThresholdsAreValid ==
    \A r \in Observations :
        \A i \in 1..Len(indicator) :
            indicator[i].code = r.indicator =>
                /\ 0 <= indicator[i].threshold_green_max
                /\ indicator[i].threshold_green_max < indicator[i].threshold_yellow_max
                /\ indicator[i].threshold_yellow_max <= 100

\* C18: when an ingest of the bond composite ran without the term premium,
\* the weight it gave each remaining component is, to the nearest percent,
\* the five-component weight divided by the sum of the remaining
\* five-component weights, and momentum and volatility weigh the same
C18_WeightsRedistributedProportionally ==
    (/\ last.op = "ingest" /\ last.ok /\ last.code = "BOND_MARKET_STABILITY"
     /\ ~fetch_series(last.world, "ACMTP10").ok) =>
        LET base == BondWeights(TRUE)
            weights == BondWeights(FALSE)
            remaining == base.credit + base.curve + base.momentum + base.volatility
        IN  /\ \A c \in {"credit", "curve", "momentum", "volatility"} :
                  2 * Abs(weights[c] * remaining - base[c] * 100) <= remaining
            /\ weights.momentum = weights.volatility

\* C19: when an ingest of the bond composite ran, the weights it applied sum
\* to 1.0 (100 percent), with the term premium (five weights) and without
\* it (four weights, none for the premium); so do the four weights of the
\* component breakdown
C19_WeightsSumToOne ==
    (last.op = "ingest" /\ last.ok /\ last.code = "BOND_MARKET_STABILITY") =>
        LET Four(weights) == weights.credit + weights.curve + weights.momentum
                             + weights.volatility
        IN  /\ Four(BondWeights(TRUE)) + BondWeights(TRUE).premium = 100
            /\ BondWeights(TRUE).premium > 0
            /\ Four(BondWeights(FALSE)) = 100
            /\ BondWeights(FALSE).premium = 0
            /\ Four(ComponentWeights) = 100

\* an ingest of the bond composite ran without the term premium, after one
\* that ran with it and left its observation in the table
C19_Witness ==
    /\ last.op = "ingest" /\ last.ok /\ last.code = "BOND_MARKET_STABILITY"
    /\ ~fetch_series(last.world, "ACMTP10").ok
    /\ \E w \in Worlds, bf \in BackfillDays :
          /\ fetch_series(w, "ACMTP10").ok
          /\ Plans[BOND_MARKET_STABILITY, bf, w].ok
          /\ \E k \in 1..Len(Plans[BOND_MARKET_STABILITY, bf, w].points) :
                /\ Plans[BOND_MARKET_STABILITY, bf, w].points[k].row \in Observations
                /\ \A b \in BackfillDays : \A j \in 1..Len(Plans[BOND_MARKET_STABILITY, b, last.world].points) :
                      Plans[BOND_MARKET_STABILITY, b, last.world].points[j].row
                          # Plans[BOND_MARKET_STABILITY, bf, w].points[k].row

\* C20: when an ingest of the liquidity proxy got its three series and the
\* union of their date keys has 30 dates or more, the date axis of the
\* derived series is the sorted union: a date before the first observation
\* of one of the series stays on it, and the ingest goes through
C20_ForwardFillKeepsUnionAxis ==
    (/\ last.op = "ingest" /\ last.code = "LIQUIDITY_PROXY"
     /\ \A symbol \in {"M2SL", "WALCL", "RRPONTSYD"} : fetch_series(last.world, symbol).ok) =>
        LET Keys(symbol) == DOMAIN series_to_dict(fetch_series(last.world, symbol).series)
            all_dates == Sorted(Keys("M2SL") \cup Keys("WALCL") \cup Keys("RRPONTSYD"))
        IN  Len(all_dates) >= MinOverlap =>
                /\ last.ok
                /\ CleanDates[LIQUIDITY_PROXY, last.world] = all_dates

\* what the transform of every indicator yields for every provider response
Derivations == <<>> @@ [ind \in Catalogue, w \in Worlds |-> Derive(ind, w)]

\* C21: after a successful ingest of a composite, the date axis of its
\* derived series is strictly ascending, and the derived series and the
\* series handed to normalization have one value for each date of the axis;
\* for the two builders that intersect (consumer health, bond market
\* stability) the axis holds exactly the dates on which every required
\* sub-series has a value
C21_AxisAscendingAndAligned ==
    (last.op = "ingest" /\ last.ok /\ RequiredSeries(last.code) # {}) =>
        LET d == Derivations[FindIndicator(indicator, last.code)[1], last.world]
        IN  /\ \A i \in 1..(Len(d.dates) - 1) : d.dates[i] < d.dates[i + 1]
            /\ Len(d.raw) = Len(d.dates)
            /\ Len(d.fed) = Len(d.dates)
            /\ last.code # "LIQUIDITY_PROXY" =>
                  {d.dates[i] : i \in 1..Len(d.dates)}
                      = {day \in UNION {DatesWithValue(last.world, symbol) :
                                            symbol \in RequiredSeries(last.code)} :
                            \A symbol \in RequiredSeries(last.code) :
                                day \in DatesWithValue(last.world, symbol)}

\* a consumer-health ingest went through on an axis that leaves out a date
\* one of its sub-series has, and a date on which one of them has no value
C21_Witness ==
    /\ last.op = "ingest" /\ last.ok /\ last.code = "CONSUMER_HEALTH"
    /\ last.inserted > 0
    /\ \E symbol \in RequiredSeries(last.code) :
          \E k \in 1..Len(fetch_series(last.world, symbol).series) :
              /\ IsNone(fetch_series(last.world, symbol).series[k].value)
              /\ fetch_series(last.world, symbol).series[k].date
                    \in DatesWithValue(last.world, "CPIAUCSL")
              /\ \A i \in 1..Len(CleanDates[CONSUMER_HEALTH, last.world]) :
                    CleanDates[CONSUMER_HEALTH, last.world][i]
                        # fetch_series(last.world, symbol).series[k].date

\* C22: no step updates or deletes a stored fact: every observation row is
\* still stored, as often as before and with the values it had, and the
\* snapshots and the alerts of before are the first snapshots and alerts of
\* after, also when an ingest computed other values for a stored date
C22_StoredFactsNeverChange ==
    [][/\ indicator_value \sqsubseteq indicator_value'
       /\ Len(system_status) <= Len(system_status')
       /\ SubSeq(system_status', 1, Len(system_status)) = system_status
       /\ Len(alert) <= Len(alert')
       /\ SubSeq(alert', 1, Len(alert)) = alert]_vars

\* a successful ingest computed, for a date that has a stored observation,
\* a row with other values, and the stored observation is as it was
C22_Witness ==
    /\ last.op = "ingest_all"
    /\ \E i \in 1..Len(indicator) :
          LET plan == Plans[indicator[i], last.backfill_days, last.world]
          IN  /\ plan.ok
              /\ \E k \in 1..Len(plan.points) : \E r \in Observations :
                    /\ r.indicator = plan.points[k].row.indicator
                    /\ r.timestamp = plan.points[k].row.timestamp
                    /\ plan.points[k].row \notin Observations

\* C23: the step in which the loop of ingest_all_indicators of a batch run
\* ends holds one result for every indicator, failed or not, and appends
\* one snapshot, taken over the observation table as the loop left it,
\* followed by the alert check; a step in which the run is suspended inside
\* the loop takes no snapshot
C23_StatusFollowsIngestAll ==
    [][\A r \in Runs :
          /\ (task.run[r].pc # "done" /\ task'.run[r].pc = "done") =>
                /\ Len(task'.run[r].results) = Len(indicator)
                /\ \E pick \in LatestChoices(indicator_value') :
                      system_status' = Append(system_status, Snapshot(pick, now))
                /\ alert' = AlertsAfterCheck(alert, indicator, now)
          /\ (task'.run[r].pc = "await" /\ task'.run[r] # task.run[r]) =>
                system_status' = system_status]_vars

\* a run with backfill_days = 0, as the scheduler starts it, ended with
\* every indicator failed, and another with one failed and one ingested
C23_Witness ==
    /\ last.op = "run"
    /\ Len(system_status) = 2
    /\ \E r, q \in Runs :
          /\ task.run[r].pc = "done" /\ task.run[r].backfill_days = 0
          /\ \A k \in 1..Len(indicator) : ~task.run[r].results[k].ok
          /\ task.run[q].pc = "done" /\ task.run[q].backfill_days = 0
          /\ \E k, m \in 1..Len(indicator) :
                task.run[q].results[k].ok /\ ~task.run[q].results[m].ok

\* C24: at most one batch run is in progress at any time: no two runs are
\* suspended inside ingest_all_indicators together
C24_OneBatchRunAtATime ==
    Cardinality({r \in Runs : task.run[r].pc = "await"}) <= 1

C26_MonthOverMonthChange ==
    (last.op = "ingest" /\ last.ok /\ last.code = "CONSUMER_HEALTH") =>
        \A symbol \in RequiredSeries(last.code) :
            LET raw == Along(series_to_dict(fetch_series(last.world, symbol).series),
                             CleanDates[CONSUMER_HEALTH, last.world])
                out == MoM(raw)
            IN  /\ Len(out) = Len(raw)
                /\ out[1] = 0
                /\ \A i \in 2..Len(raw) :
                      IF raw[i - 1] = 0 THEN out[i] = 0
                      ELSE /\ raw[i - 1] > 0
                           /\ out[i] * raw[i - 1] <= (raw[i] - raw[i - 1]) * 10000
                           /\ (raw[i] - raw[i - 1]) * 10000 < (out[i] + 1) * raw[i - 1]
                /\ raw = <<100, 110, 99>> => out = <<0, 1000, -1000>>

\* a consumer-health ingest went through whose PCE values are 100, 110, 99
\* and whose CPI values start with 0
C26_Witness ==
    /\ last.op = "ingest" /\ last.ok /\ last.code = "CONSUMER_HEALTH"
    /\ last.inserted > 0
    /\ Along(series_to_dict(fetch_series(last.world, "PCE").series),
             CleanDates[CONSUMER_HEALTH, last.world]) = <<100, 110, 99>>
    /\ Along(series_to_dict(fetch_series(last.world, "CPIAUCSL").series),
             CleanDates[CONSUMER_HEALTH, last.world])[1] = 0

\* C27: every observation a successful ingest of DFF inserts, latest-only
\* or backfill, is dated at the i-th clean date of the fetched series for
\* some i after the first, and its normalized value, score and band are
\* those of the change raw[i] - raw[i-1] of that date: the z-score of the
\* change among all changes, adjusted for direction, its score and the band
\* of the score
C27_RateOfChangeKeepsItsDate ==
    [][(last'.op = "ingest" /\ last'.ok /\ last'.code = "DFF") =>
          LET ind == FindIndicator(indicator, "DFF")[1]
              clean == CleanValues(fetch_series(last'.world, ind.source_symbol).series)
              changes == List([k \in 1..(Len(clean) - 1) |->
                                  Get(clean[k + 1].value) - Get(clean[k].value)])
              z == normalize_series(changes, ind.direction, ind.lookback_days_for_z, 1)
          IN  \A r \in BagToSet(indicator_value' (-) indicator_value) :
                  \E i \in 2..Len(clean) :
                      /\ r.indicator = "DFF"
                      /\ r.timestamp = clean[i].date
                      /\ r.normalized_value = z[i - 1]
                      /\ r.score = map_z_to_score(z[i - 1])
                      /\ r.state = classify_state(r.score, ind.threshold_green_max,
                                                  ind.threshold_yellow_max)]_vars

\* a backfill of DFF stored two observations from a series with a missing
\* value in its middle
C27_Witness ==
    /\ last.op = "ingest" /\ last.ok /\ last.code = "DFF"
    /\ last.backfill_days = 2 /\ last.inserted = 2
    /\ \E k \in 2..Len(fetch_series(last.world, "DFF").series) :
          IsNone(fetch_series(last.world, "DFF").series[k].value)
    /\ \E r, q \in Observations :
          r.indicator = "DFF" /\ q.indicator = "DFF" /\ r.normalized_value # q.normalized_value

C29_OverlappingBackfillsKeepDatesUnique ==
    (\A r \in Runs : task.run[r].pc # "idle" => task.run[r].backfill_days > 0) =>
        \A r \in BagToSet(indicator_value) :
            /\ CopiesIn(r, indicator_value) = 1
            /\ \A q \in BagToSet(indicator_value) :
                  (q.indicator = r.indicator /\ q.timestamp = r.timestamp) => q = r

\* a backfill has just gone past an indicator and stored nothing for it,
\* while another backfill, which stored that indicator's dates, is still
\* suspended at a later await
C29_Witness ==
    /\ last.op = "run" /\ last.backfill_days > 0
    /\ \E r, q \in Runs :
          /\ r # q
          /\ last.rep = r /\ task.run[r].backfill_days > 0
          /\ task.run[q].pc = "await" /\ task.run[q].backfill_days > 0
          /\ \E k \in 1..Len(task.run[r].results) :
                /\ k <= Len(task.run[q].results)
                /\ task.run[r].results[k].ok /\ task.run[r].results[k].stored = 0
                /\ task.run[q].results[k].ok /\ task.run[q].results[k].stored > 0

\* C30: after a successful ingest of CONSUMER_HEALTH, the consumer_health
\* value the components endpoint reports for a date, on the same provider
\* data, equals the value the ingest derived for that date
C30_ComponentsAgreeWithPipeline ==
    (last.op = "ingest" /\ last.ok /\ last.code = "CONSUMER_HEALTH") =>
        LET derived == Derivations[CONSUMER_HEALTH, last.world]
            shown == get_indicator_components(last.world)
        IN  \A i \in 1..Len(shown.rows), k \in 1..Len(derived.dates) :
                shown.rows[i].date = derived.dates[k] =>
                    shown.rows[i].consumer_health * derived.unit = derived.raw[k] * shown.unit

====
